---- MODULE Spec2Model ----
(***************************************************************************)
(* Job Matchmaker Agent (src/app.py): the JobMatchmaker class (user        *)
(* registry, 24-hour fetch cache, scoring, e-mail notification, batch      *)
(* runner) and the three Streamlit handlers that drive it.                 *)
(*                                                                         *)
(* Strings are sequences of one-character strings, so that lower(),        *)
(* strip(), split(), join() and the substring test are computed.  A JSON   *)
(* object is a record whose DOMAIN is the set of keys present; the value   *)
(* of a key is <<>> for JSON null and <<v>> for a value v.                  *)
(*                                                                         *)
(* Every execution of the script builds a JobMatchmaker of its own (an     *)
(* empty cache; the registry is the session's list, shared) and registers  *)
(* its scheduled_job; job_cache[k] is the cache of the k-th matchmaker.    *)
(* The threads share the registry, the caches, the clock and the users'    *)
(* last_notified, and the code takes no lock.  An operation is a sequence  *)
(* of steps: a step is one access to what is shared (a cache looked up, an *)
(* entry's timestamp or data read, an entry stored, the registry appended  *)
(* to or iterated, last_notified written, the clock read with the access   *)
(* that follows it) and the code that touches nothing shared after it, up  *)
(* to the next access or to a call of the job-search API or the e-mail     *)
(* API, whose answer the thread waits for while the others run.  procs[th] *)
(* is where thread th stands (thread 1 runs the script, the others are     *)
(* scheduler threads).  fired is the number of scheduled_job runs started. *)
(*                                                                         *)
(* Two variables are kept for the properties to read and are no state of   *)
(* the program: last, what the step just taken did, and stored_by, for     *)
(* every cache entry the arguments of the call that stored it.             *)
(***************************************************************************)
EXTENDS Integers, Sequences, FiniteSets, TLC

VARIABLES users, job_cache, now, fuzz, procs, fired, last, stored_by

vars == <<users, job_cache, now, fuzz, procs, fired, last, stored_by>>

(***************************************************************************)
(* Bounds of the model.                                                    *)
(***************************************************************************)
\* users registered
MaxUsers == 2
\* executions of the script (matchmakers built)
MaxScripts == 2
\* scheduled_job runs started
MaxFirings == 2

(***************************************************************************)
(* Program constants.                                                      *)
(***************************************************************************)
CacheTTL == 86400
SkillPoints == 10
SkillCap == 50
SalaryBonus == 10
MatchThreshold == 60
TopMatches == 5
ManualLimit == 20
SearchLimit == 10
HttpOk == 200

(***************************************************************************)
(* Python string operations.                                               *)
(***************************************************************************)
\* The cased characters a TLA+ string can hold (U+0001 to U+00FF) that
\* str.lower() changes, and what it changes them to: A-Z and the capital
\* letters of Latin-1.
Uppers == <<"A","B","C","D","E","F","G","H","I","J","K","L","M",
            "N","O","P","Q","R","S","T","U","V","W","X","Y","Z",
            "À","Á","Â","Ã","Ä","Å","Æ","Ç","È","É","Ê","Ë","Ì",
            "Í","Î","Ï","Ð","Ñ","Ò","Ó","Ô","Õ","Ö","Ø","Ù","Ú",
            "Û","Ü","Ý","Þ">>
Lowers == <<"a","b","c","d","e","f","g","h","i","j","k","l","m",
            "n","o","p","q","r","s","t","u","v","w","x","y","z",
            "à","á","â","ã","ä","å","æ","ç","è","é","ê","ë","ì",
            "í","î","ï","ð","ñ","ò","ó","ô","õ","ö","ø","ù","ú",
            "û","ü","ý","þ">>

LowerChar(c) ==
    IF \E i \in 1..Len(Uppers) : Uppers[i] = c
    THEN Lowers[CHOOSE i \in 1..Len(Uppers) : Uppers[i] = c]
    ELSE c

\* str.lower()
Lower(s) == [i \in 1..Len(s) |-> LowerChar(s[i])]

\* needle in hay (substring test)
Contains(hay, needle) ==
    \E i \in 0..(Len(hay) - Len(needle)) :
        SubSeq(hay, i + 1, i + Len(needle)) = needle

\* The characters str.strip() removes, those for which str.isspace() holds,
\* among the characters a TLA+ string can hold: space, tab, line feed,
\* carriage return, form feed, then U+000B (vertical tab), U+001C to U+001F
\* (separators), U+0085 (next line) and U+00A0 (no-break space).
Whitespace == {" ", "\t", "\n", "\r", "\f",
               "", "", "", "", "", "", " "}

RECURSIVE LStrip(_)
LStrip(s) == IF s # <<>> /\ Head(s) \in Whitespace THEN LStrip(Tail(s)) ELSE s

RECURSIVE RStrip(_)
RStrip(s) ==
    IF s # <<>> /\ s[Len(s)] \in Whitespace
    THEN RStrip(SubSeq(s, 1, Len(s) - 1))
    ELSE s

\* str.strip()
Strip(s) == RStrip(LStrip(s))

\* str.split(','): the pieces between commas, at least one piece
RECURSIVE SplitComma(_, _)
SplitComma(s, piece) ==
    IF s = <<>> THEN <<piece>>
    ELSE IF Head(s) = "," THEN <<piece>> \o SplitComma(Tail(s), <<>>)
    ELSE SplitComma(Tail(s), Append(piece, Head(s)))

\* sep.join(parts)
RECURSIVE Join(_, _)
Join(sep, parts) ==
    IF parts = <<>> THEN <<>>
    ELSE IF Len(parts) = 1 THEN parts[1]
    ELSE parts[1] \o sep \o Join(sep, Tail(parts))

Min(a, b) == IF a < b THEN a ELSE b

\* xs[:n]
Take(xs, n) == SubSeq(xs, 1, Min(Len(xs), n))

\* [x.strip() for x in parts] and [x.strip().lower() for x in parts]
StripAll(parts) == [i \in 1..Len(parts) |-> Strip(parts[i])]
StripLowerAll(parts) == [i \in 1..Len(parts) |-> Lower(Strip(parts[i]))]

(***************************************************************************)
(* The strings of the model.                                               *)
(***************************************************************************)
sDev == <<"d","e","v">>
sDevOps == <<"d","e","v","_","o","p","s">>
sYork == <<"y","o","r","k">>
sOpsYork == <<"o","p","s","_","y","o","r","k">>
sGb == <<"g","b">>

Queries == {sDev, sDevOps}
Locations == {sYork, sOpsYork}

\* The searches typed into Tab 3 (a field may be left empty).
SearchInputs == {<<sDev, sOpsYork, sGb>>, <<sDevOps, sYork, sGb>>,
                 <<<<>>, sYork, sGb>>, <<sDev, <<>>, sGb>>}

\* The job titles typed into Tab 2 (the field may be left empty).
TitleInputs == {<<>>, sDev, sDevOps}

(***************************************************************************)
(* Job postings, upstream payloads and upstream responses of the model.    *)
(* A posting is a JSON object: a key may be absent, null (<<>>) or set.    *)
(***************************************************************************)
tDev == <<"D","e","v">>
tDEV == <<"D","E","V">>
dSqlPy == <<"S","Q","L"," ","a","n","d"," ","p","y">>
dPySql == <<"p","y",","," ","s","q","l">>
aUk == <<"U","K">>
aYork == <<"Y","o","r","k">>

\* every component present; salary above both users' minimum
jobFull == [title |-> <<tDev>>, description |-> <<dSqlPy>>,
            location |-> <<[area |-> <<aYork>>]>>, salary_min |-> <<65000>>]
\* salary_min exactly ann's minimum
jobTie == [title |-> <<tDEV>>, description |-> <<dPySql>>,
           location |-> <<[area |-> <<aYork>>]>>, salary_min |-> <<50000>>]
\* no location key
jobNoLoc == [title |-> <<tDev>>, description |-> <<dSqlPy>>,
             salary_min |-> <<50000>>]
\* area of two parts
jobUk == [title |-> <<tDev>>, description |-> <<dSqlPy>>,
          location |-> <<[area |-> <<aUk, aYork>>]>>, salary_min |-> <<50000>>]
\* no title key, location without area, salary_min null
jobBare == [description |-> <<dPySql>>,
            location |-> <<[display_name |-> aYork]>>, salary_min |-> <<>>]
\* title present with a null value
jobNullTitle == [title |-> <<>>, description |-> <<dSqlPy>>]
Jobs == {jobFull, jobTie, jobNoLoc, jobUk, jobBare, jobNullTitle}

\* Postings with the keys the e-mail body and the job cards read, made of
\* the titles, descriptions and areas above.
\* a company object and both ends of the salary range
jobCompany == [title |-> <<tDev>>, description |-> <<dSqlPy>>,
               company |-> <<[display_name |-> <<"A","c","m","e">>]>>,
               location |-> <<[area |-> <<aYork>>]>>,
               salary_min |-> <<65000>>, salary_max |-> <<70000>>]
\* company present with a null value
jobNullCompany == [title |-> <<tDev>>, description |-> <<dSqlPy>>,
                   company |-> <<>>,
                   location |-> <<[area |-> <<aYork>>]>>,
                   salary_min |-> <<65000>>]
\* salary_min null while salary_max is set
jobNullMin == [title |-> <<tDev>>, description |-> <<dSqlPy>>,
               salary_min |-> <<>>, salary_max |-> <<70000>>]

payGood == [results |-> <<jobNoLoc, jobUk, jobFull, jobBare, jobTie>>]
payNone == [count |-> 0]
payBad == [results |-> <<jobFull, jobNullTitle>>]
payCompany == [results |-> <<jobCompany, jobNullCompany>>]
paySalary == [results |-> <<jobCompany, jobNullMin>>]

\* A JSON document, as response.json() returns it: an object (a dict) or a
\* value of another type, here an array (a list).
JsonObject(o) == [object |-> o]
JsonArray(a) == [array |-> a]

\* What the job-search API does with a request: requests.get raises
\* (error), or a final response with a status and a body that parses as
\* JSON (<<document>>) or does not (<<>>).
rConnError == [error |-> TRUE, status |-> 0, body |-> <<>>]
rGood == [error |-> FALSE, status |-> 200, body |-> <<JsonObject(payGood)>>]
rNone == [error |-> FALSE, status |-> 200, body |-> <<JsonObject(payNone)>>]
rBad == [error |-> FALSE, status |-> 200, body |-> <<JsonObject(payBad)>>]
rCompany ==
    [error |-> FALSE, status |-> 200, body |-> <<JsonObject(payCompany)>>]
rSalary ==
    [error |-> FALSE, status |-> 200, body |-> <<JsonObject(paySalary)>>]
rNotJson == [error |-> FALSE, status |-> 200, body |-> <<>>]
rArray == [error |-> FALSE, status |-> 200, body |-> <<JsonArray(<<jobFull>>)>>]
rServerError ==
    [error |-> FALSE, status |-> 500, body |-> <<JsonObject(payNone)>>]
rMultipleChoices ==
    [error |-> FALSE, status |-> 300, body |-> <<JsonObject(payGood)>>]

Responses == {rConnError, rGood, rNone, rBad, rCompany, rSalary, rNotJson,
              rArray, rServerError, rMultipleChoices}

\* What the e-mail API does with a request: conn.request / getresponse
\* raises (error), or an answer with a status and a body, the text that
\* res.read().decode('utf-8') gives, <<>> when it raises (a body cut off
\* before its length, or bytes that are not UTF-8).
EmailOutcomes ==
    {[error |-> TRUE, status |-> 0, body |-> <<>>],
     [error |-> FALSE, status |-> 200, body |-> <<"{}">>],
     [error |-> FALSE, status |-> 200, body |-> <<>>],
     [error |-> FALSE, status |-> 201, body |-> <<"{}">>],
     [error |-> FALSE, status |-> 500, body |-> <<"{}">>]}

\* fuzz.token_set_ratio is a black box with values 0..100: a table over the
\* lowercased strings the model compares, fixed for a behaviour.  A table
\* gives 100 to equal strings and otherwise a value by the right-hand string
\* (a title, the area "york", the area "uk, york").
SimVals == {[title |-> 70, york |-> 70, uk |-> 70],
            [title |-> 0, york |-> 0, uk |-> 0],
            [title |-> 2, york |-> 21, uk |-> 71]}
FuzzLeft == {Lower(s) : s \in Queries \cup Locations}
FuzzRight ==
    {Lower(tDev), Lower(aYork), Lower(Join(<<",", " ">>, <<aUk, aYork>>))}
FuzzTable(v) ==
    [p \in FuzzLeft \X FuzzRight |->
        IF p[1] = p[2] THEN 100
        ELSE IF p[2] = Lower(tDev) THEN v.title
        ELSE IF p[2] = Lower(aYork) THEN v.york
        ELSE v.uk]
FuzzTables == {FuzzTable(v) : v \in SimVals}

token_set_ratio(a, b) == fuzz[<<a, b>>]

(***************************************************************************)
(* The registration form's inputs.                                         *)
(***************************************************************************)
formAnn == [name |-> "ann", email |-> "ann@x", location |-> sYork,
            roles |-> sDev \o <<",", "\t", " ">> \o sDevOps \o <<"", "\n">>,
            skills |-> <<"S","Q","L",","," ","p","y">>,
            min_salary |-> 50000]
formBob == [name |-> "bob", email |-> "bob@x", location |-> sOpsYork,
            roles |-> sDevOps,
            skills |-> <<"s","q","l",",","p","y",",","s",",","q",",","l",",","p">>,
            min_salary |-> 60000]
Forms == {formAnn, formBob}


(***************************************************************************)
(* Double-precision arithmetic.  The scores of the source are Python       *)
(* floats.  A double x of the model's range (0, or 0.2 <= x < 128) is held *)
(* exactly as [k, e] with x = k/10 + e * U, U = 2^-60 / 10: k is x in      *)
(* tenths, rounded, and e the rest (x / U = k * 2^60 + e is an integer).   *)
(* A product or a sum is formed exactly and rounded to the nearest double, *)
(* ties to the even mantissa, as the hardware does.                        *)
(***************************************************************************)
\* a whole number (exact as a double)
Whole(n) == [k |-> 10 * n, e |-> 0]

\* the doubles nearest to 0.3 and to 0.2
TitleWeight == [k |-> 3, e |-> -128]
LocationWeight == [k |-> 2, e |-> 128]

\* 2^n mod 10, for n >= 1
Pow2Mod10(n) ==
    IF n % 4 = 1 THEN 2 ELSE IF n % 4 = 2 THEN 4 ELSE IF n % 4 = 3 THEN 8 ELSE 6

\* x >= 2^(i-3)
AtLeastPow2(x, i) == 4 * x.k > 5 * 2^i \/ (4 * x.k = 5 * 2^i /\ x.e >= 0)

\* The unit in the last place of x's binade is 10 * 2^UlpExp(x) * U.
UlpExp(x) ==
    5 + CHOOSE i \in 0..10 :
            AtLeastPow2(x, i) /\ \A n \in (i + 1)..10 : ~AtLeastPow2(x, n)

\* (x / U) mod (10 * 2^j)
Residue(x, j) ==
    (2^j * ((x.k * Pow2Mod10(60 - j)) % 10) + x.e) % (10 * 2^j)

\* x, whose rest above the double below it is r, rounded to a double whose
\* unit in the last place is 10 * 2^j * U: to nearest, ties to the even
\* mantissa
RoundBy(x, j, r) ==
    IF 2 * r < 10 * 2^j THEN [k |-> x.k, e |-> x.e - r]
    ELSE IF 2 * r > 10 * 2^j THEN [k |-> x.k, e |-> x.e - r + 10 * 2^j]
    ELSE IF Residue([k |-> x.k, e |-> x.e - r], j + 1) # 0
    THEN [k |-> x.k, e |-> x.e - r + 10 * 2^j]
    ELSE [k |-> x.k, e |-> x.e - r]

RoundWithin(x, j) == RoundBy(x, j, Residue(x, j))

\* the double nearest to x
RoundDouble(x) ==
    IF x.k = 0 /\ x.e = 0 THEN x ELSE RoundWithin(x, UlpExp(x))

\* n * w for an int n and a double w; x + y
Times(n, w) == RoundDouble([k |-> n * w.k, e |-> n * w.e])
Plus(x, y) == RoundDouble([k |-> x.k + y.k, e |-> x.e + y.e])
\* x < y
Less(x, y) == x.k < y.k \/ (x.k = y.k /\ x.e < y.e)

(***************************************************************************)
(* JobMatchmaker.fetch_jobs                                                *)
(***************************************************************************)
\* f"{query}_{location}_{country}"
cache_key(query, location, country) ==
    query \o <<"_">> \o location \o <<"_">> \o country

\* Variant of IsFresh: an entry exactly 24 hours old still counts as fresh.
IsFreshInclusive(entry, t) == t - entry.timestamp <= CacheTTL

\* (datetime.now() - entry["timestamp"]).total_seconds() < 86400
IsFresh(entry, t) == t - entry.timestamp < CacheTTL

\* Variant of RaisesForStatus: only 4xx statuses raise.
RaisesForClientError(status) == 400 <= status /\ status < 500

\* response.raise_for_status(): raises for 4xx and 5xx statuses only
RaisesForStatus(status) == 400 <= status /\ status < 600

\* self.job_cache[cache_key] = {...}
CachePut(cache, key, entry) ==
    [k \in DOMAIN cache \cup {key} |-> IF k = key THEN entry ELSE cache[k]]

ErrorMarker(why) == [results |-> <<>>, error |-> why]

\* The local variables of a fetch_jobs call: its arguments, and what it has
\* read so far: found (cache_key in self.job_cache, line 42), at (the clock
\* of line 44), judged (the timestamp read on line 44), answered (the clock
\* of line 69), up (the upstream's answer) and data (response.json()).
NewCall(query, location, country) ==
    [query |-> query, location |-> location, country |-> country,
     found |-> FALSE, at |-> <<>>, judged |-> <<>>, answered |-> <<>>,
     up |-> <<>>, data |-> <<>>]

CallKey(call) == cache_key(call.query, call.location, call.country)

\* Lines 41-44, up to datetime.now(): the key is looked up; when it is
\* stored the clock is read (t), otherwise the request is sent ("get").
fetch_jobs(cache, t, call) ==
    IF CallKey(call) \in DOMAIN cache
    THEN [pc |-> "timestamp", call |-> [call EXCEPT !.found = TRUE, !.at = <<t>>]]
    ELSE [pc |-> "get", call |-> call]

\* Line 44, self.job_cache[cache_key]["timestamp"]: the entry now stored is
\* read and its age judged by the clock read before.
fetch_jobs_timestamp(cache, call) ==
    [pc |-> IF IsFresh(cache[CallKey(call)], call.at[1]) THEN "data" ELSE "get",
     call |-> [call EXCEPT !.judged = <<cache[CallKey(call)].timestamp>>]]

\* Line 45, return self.job_cache[cache_key]["data"]: the payload now stored.
fetch_jobs_data(cache, call) == cache[CallKey(call)].data

\* Lines 61-69, when the upstream has answered with up: the error marker
\* returned (lines 74-77), or the payload to be stored and the clock read
\* for its timestamp (t, line 69).
fetch_jobs_response(t, up, call) ==
    IF up.error
    THEN [ok |-> FALSE, call |-> [call EXCEPT !.up = <<up>>],
          data |-> ErrorMarker("ConnectionError")]
    ELSE IF RaisesForStatus(up.status)
    THEN [ok |-> FALSE, call |-> [call EXCEPT !.up = <<up>>],
          data |-> ErrorMarker("HTTPError")]
    ELSE IF up.body = <<>>
    THEN [ok |-> FALSE, call |-> [call EXCEPT !.up = <<up>>],
          data |-> ErrorMarker("JSONDecodeError")]
    ELSE IF "object" \notin DOMAIN up.body[1]
    THEN [ok |-> FALSE, call |-> [call EXCEPT !.up = <<up>>],
          data |-> ErrorMarker("AttributeError")]
    ELSE [ok |-> TRUE,
          call |-> [call EXCEPT !.up = <<up>>, !.answered = <<t>>,
                                !.data = <<up.body[1].object>>],
          data |-> up.body[1].object]

\* Lines 68-71, self.job_cache[cache_key] = {...}: the cache after the store.
fetch_jobs_store(cache, call) ==
    CachePut(cache, CallKey(call),
             [timestamp |-> call.answered[1], data |-> call.data[1]])

\* The record of a call that has returned data: what it read, the upstream
\* requests it issued, and the cache before (prior) and after (after) the
\* step in which it returned.
Fetched(call, data, prior, after) ==
    [query |-> call.query, location |-> call.location, country |-> call.country,
     found |-> call.found, at |-> call.at, judged |-> call.judged,
     answered |-> call.answered, up |-> call.up,
     reqs |-> IF call.up = <<>> THEN 0 ELSE 1,
     prior |-> prior, after |-> after, data |-> data]

(***************************************************************************)
(* JobMatchmaker.match_jobs_for_user                                       *)
(***************************************************************************)
\* for skill in user["skills"]: if skill.lower() in description.lower(): ...
RECURSIVE MatchSkills(_, _)
MatchSkills(skills, description) ==
    IF skills = <<>> THEN <<>>
    ELSE IF Contains(Lower(description), Lower(Head(skills)))
    THEN <<Head(skills)>> \o MatchSkills(Tail(skills), description)
    ELSE MatchSkills(Tail(skills), description)

\* Lower, Join and MatchSkills tabulated over the strings of the model: the
\* values are those of the operators, computed once (f @@ <<>> is f, held as
\* an explicit table).
Tabulate(f) == f @@ <<>>

AreaLists == {j.location[1].area :
                 j \in {k \in Jobs : /\ "location" \in DOMAIN k
                                     /\ k.location # <<>>
                                     /\ "area" \in DOMAIN k.location[1]}}
AreaTable == Tabulate([a \in AreaLists |-> Lower(Join(<<",", " ">>, a))])
Titles == {j.title[1] : j \in {k \in Jobs : "title" \in DOMAIN k /\ k.title # <<>>}}
LowerTable == Tabulate([s \in Queries \cup Locations \cup Titles |-> Lower(s)])
Descriptions ==
    {j.description[1] :
        j \in {k \in Jobs : "description" \in DOMAIN k /\ k.description # <<>>}}
SkillLists == {StripLowerAll(SplitComma(f.skills, <<>>)) : f \in Forms}
SkillTable ==
    Tabulate([p \in SkillLists \X Descriptions |-> MatchSkills(p[1], p[2])])

\* A null title, description or location makes the scoring code raise
\* (None has no lower(); "area" in None).
ScoreRaises(user, job) ==
    \/ "title" \in DOMAIN job /\ job.title = <<>>
    \/ "description" \in DOMAIN job /\ job.description = <<>> /\ user.skills # <<>>
    \/ "location" \in DOMAIN job /\ job.location = <<>>

\* score += title_score * 0.3
TitleScore(score, role, job) ==
    IF "title" \in DOMAIN job
    THEN Plus(score,
              Times(token_set_ratio(LowerTable[role], LowerTable[job.title[1]]),
                    TitleWeight))
    ELSE score

MatchedSkills(user, job) ==
    IF "description" \in DOMAIN job
    THEN SkillTable[<<user.skills, job.description[1]>>]
    ELSE <<>>

\* score += min(skill_score, 50)
SkillScore(score, user, job) ==
    IF "description" \in DOMAIN job
    THEN Plus(score,
              Whole(Min(Len(MatchedSkills(user, job)) * SkillPoints, SkillCap)))
    ELSE score

\* score += location_score * 0.2
LocationScore(score, user, job) ==
    IF "location" \in DOMAIN job /\ "area" \in DOMAIN job.location[1]
    THEN Plus(score,
              Times(token_set_ratio(LowerTable[user.location],
                                    AreaTable[job.location[1].area]),
                    LocationWeight))
    ELSE score

\* Variant of SalaryScore: the salary must exceed the user's minimum.
SalaryScoreStrict(score, user, job) ==
    IF /\ "salary_min" \in DOMAIN job
       /\ job.salary_min # <<>>
       /\ job.salary_min[1] > user.min_salary
    THEN Plus(score, Whole(SalaryBonus))
    ELSE score

\* score += 10
SalaryScore(score, user, job) ==
    IF /\ "salary_min" \in DOMAIN job
       /\ job.salary_min # <<>>
       /\ job.salary_min[1] >= user.min_salary
    THEN Plus(score, Whole(SalaryBonus))
    ELSE score

\* The score of one posting (defined when ScoreRaises is false): the four
\* additions in the order of the source, starting from 0.
JobScore(user, role, job) ==
    SalaryScore(
        LocationScore(SkillScore(TitleScore(Whole(0), role, job), user, job),
                      user, job),
        user, job)

\* Variant of Qualifies: a score of exactly 60 qualifies.
QualifiesFromThreshold(score) == ~Less(score, Whole(MatchThreshold))

\* if score > 60
Qualifies(score) == Less(Whole(MatchThreshold), score)

\* A match as appended to matched_jobs; at records where the posting was met
\* (role index, index in the role's results), which the source does not keep.
Match(user, role, job, at) ==
    [job |-> job, score |-> JobScore(user, role, job),
     matched_skills |-> MatchedSkills(user, job), at |-> at]

\* for job in jobs_data["results"]: the list after the loop, or the raise.
RECURSIVE ScoreResults(_, _, _, _, _, _)
ScoreResults(user, role, r, results, j, acc) ==
    IF j > Len(results) THEN [raised |-> FALSE, matched |-> acc]
    ELSE IF ScoreRaises(user, results[j]) THEN [raised |-> TRUE, matched |-> acc]
    ELSE ScoreResults(user, role, r, results, j + 1,
            IF Qualifies(JobScore(user, role, results[j]))
            THEN Append(acc, Match(user, role, results[j], <<r, j>>))
            ELSE acc)

\* The body of the role loop for the payload fetched for role r (lines
\* 85-122).
ScoreRole(user, r, data, acc) ==
    IF "results" \notin DOMAIN data THEN [raised |-> FALSE, matched |-> acc]
    ELSE ScoreResults(user, user.roles[r], r, data.results, 1, acc)

\* list.sort(key=score, reverse=True) is stable: an element goes after the
\* elements whose score is at least its own.
RECURSIVE InsertByScore(_, _)
InsertByScore(sorted, x) ==
    IF sorted = <<>> THEN <<x>>
    ELSE IF ~Less(Head(sorted).score, x.score)
    THEN <<Head(sorted)>> \o InsertByScore(Tail(sorted), x)
    ELSE <<x>> \o sorted

RECURSIVE SortByScore(_, _)
SortByScore(xs, sorted) ==
    IF xs = <<>> THEN sorted
    ELSE SortByScore(Tail(xs), InsertByScore(sorted, Head(xs)))

\* Variant of InsertByScore for an unstable sort: an element goes before the
\* elements whose score equals its own.
RECURSIVE InsertBeforeEqual(_, _)
InsertBeforeEqual(sorted, x) ==
    IF sorted = <<>> THEN <<x>>
    ELSE IF Less(x.score, Head(sorted).score)
    THEN <<Head(sorted)>> \o InsertBeforeEqual(Tail(sorted), x)
    ELSE <<x>> \o sorted

RECURSIVE SortBeforeEqual(_, _)
SortBeforeEqual(xs, sorted) ==
    IF xs = <<>> THEN sorted
    ELSE SortBeforeEqual(Tail(xs), InsertBeforeEqual(sorted, Head(xs)))

TopSortedUnstable(matched) == Take(SortBeforeEqual(matched, <<>>), TopMatches)

\* matched_jobs.sort(...); return matched_jobs[:5]
TopSorted(matched) == Take(SortByScore(matched, <<>>), TopMatches)

(***************************************************************************)
(* JobMatchmaker.send_email_notification                                   *)
(***************************************************************************)
\* job.get('company', {}).get('display_name', ...) (lines 137, 210, 367):
\* a null company has no get().
CompanyRaises(job) == "company" \in DOMAIN job /\ job.company = <<>>

\* "location" in job and "area" in job["location"] (lines 138, 214, 371):
\* "area" in None.
LocationRaises(job) == "location" \in DOMAIN job /\ job.location = <<>>

\* Building the e-mail body (lines 135-145, before the try) raises on a
\* match whose posting has a null company or a null location.
BodyRaises(matched_jobs) ==
    \E n \in 1..Len(matched_jobs) :
        CompanyRaises(matched_jobs[n].job) \/ LocationRaises(matched_jobs[n].job)

\* Variant of send_email_notification without the early return for an empty
\* match list.
SendWithoutEmptyCheck(user, matched_jobs) ==
    IF BodyRaises(matched_jobs)
    THEN [result |-> <<>>, mail |-> <<>>, raised |-> TRUE]
    ELSE [result |-> <<>>,
          mail |-> <<[to |-> user.email, jobs |-> matched_jobs]>>,
          raised |-> FALSE]

\* The call up to conn.request (lines 129-164): the message returned for an
\* empty list, an exception raised while the body is built, or the e-mail
\* posted (listed by its recipient and the matches its body renders), whose
\* answer the call then waits for.
send_email_notification(user, matched_jobs) ==
    IF matched_jobs = <<>>
    THEN [result |-> <<[msg |-> "No matching jobs found", to |-> ""]>>,
          mail |-> <<>>, raised |-> FALSE]
    ELSE IF BodyRaises(matched_jobs)
    THEN [result |-> <<>>, mail |-> <<>>, raised |-> TRUE]
    ELSE [result |-> <<>>,
          mail |-> <<[to |-> user.email, jobs |-> matched_jobs]>>,
          raised |-> FALSE]

\* Lines 164-178, when the e-mail API has done api: the error message of
\* the except branch when the request, getresponse, or the reading and
\* decoding of the body (line 167) raises, the error message of line 171
\* for a status other than 200, or (notified) the clock is read for
\* user["last_notified"] and the success message will be returned.
send_email_response(mail, api) ==
    IF api.error \/ api.body = <<>> \/ api.status # HttpOk
    THEN [result |-> [msg |-> "Error sending email", to |-> ""],
          notified |-> FALSE]
    ELSE [result |-> [msg |-> "Notification sent to", to |-> mail.to],
          notified |-> TRUE]

\* What is known of one send_email_notification call when it returns: the
\* user (index in the registry, 0 for the copy Tab 2 makes), the list passed,
\* the message returned, the e-mail API calls made and the value assigned to
\* user["last_notified"] of the user object passed in, if any.
ReportLine(i, name, matched_jobs, result, calls, stamp) ==
    [user |-> i, name |-> name, passed |-> matched_jobs, result |-> result,
     calls |-> calls, stamp |-> stamp]

(***************************************************************************)
(* JobMatchmaker.add_user                                                  *)
(***************************************************************************)
add_user(form) ==
    [name |-> form.name, email |-> form.email, location |-> form.location,
     roles |-> StripAll(SplitComma(form.roles, <<>>)),
     skills |-> StripLowerAll(SplitComma(form.skills, <<>>)),
     min_salary |-> form.min_salary, last_notified |-> <<>>]

(***************************************************************************)
(* Threads.  A thread executes Python code one step at a time, and the     *)
(* other threads run between two steps.  A step is one access to what the  *)
(* threads share (the registry, a cache, a user's last_notified, the       *)
(* clock, the list of scheduled jobs) followed by the code that touches    *)
(* nothing shared, up to the next such access or to a blocking call.       *)
(***************************************************************************)
\* What a step shows when it ends.
Shown(msg) == [msg |-> msg, to |-> ""]

\* A thread running nothing; otherwise the operation (kind), its matchmaker
\* (mm), the access or the blocking call it stands before (pc) and its local
\* variables: the number of users iterated (i), the role index r,
\* matched_jobs (acc), the frame of its fetch_jobs call (call), the e-mail
\* posted (mail), the e-mail API's answer (api), the clock read for
\* last_notified (t), results, Tab 2's job_title and email_to_notify, and
\* Tab 1's form.
NoProc ==
    [kind |-> "none", mm |-> 0, pc |-> "", i |-> 0, r |-> 0, acc |-> <<>>,
     call |-> <<>>, mail |-> <<>>, api |-> <<>>, t |-> <<>>, results |-> <<>>,
     job_title |-> <<>>, email_to |-> "", form |-> <<>>]

\* A scheduler thread ended by an exception.
DeadProc == [NoProc EXCEPT !.kind = "dead"]

\* What a step has done besides changing the state: where the thread stands
\* after it (proc), how the step ended (end: the thread's next pc, or
\* "returned" or "raised" when its operation is over), the fetch_jobs calls
\* and the match_jobs_for_user calls that returned or raised, the
\* send_email_notification calls that returned (lines), the report returned
\* by run_matching_for_all_users, the matches Tab 2 e-mails and the message
\* shown.
NoOut ==
    [proc |-> NoProc, end |-> "returned", fetches |-> <<>>, runs |-> <<>>,
     lines |-> <<>>, report |-> <<>>, matched |-> <<>>, result |-> Shown("")]

\* The thread goes on as p.
GoesOn(p) == [NoOut EXCEPT !.proc = p, !.end = p.pc]

(***************************************************************************)
(* JobMatchmaker.run_matching_for_all_users and match_jobs_for_user        *)
(***************************************************************************)
\* One match_jobs_for_user call that has ended: the user, the jobs appended
\* to matched_jobs and the list returned.
MatchingRun(i, qualifying, raised) ==
    [user |-> i, qualifying |-> qualifying,
     matched |-> IF raised THEN <<>> ELSE TopSorted(qualifying),
     raised |-> raised]

\* for user in self.users (line 182): the list is read; with a next user
\* match_jobs_for_user starts with the first role (lines 82-83, up to the
\* lookup of fetch_jobs), otherwise the report is returned (line 186).
run_matching_for_all_users(us, p) ==
    IF p.i < Len(us)
    THEN GoesOn([p EXCEPT !.i = p.i + 1, !.r = 1, !.acc = <<>>, !.pc = "lookup",
                          !.call = <<NewCall(us[p.i + 1].roles[1],
                                             us[p.i + 1].location, sGb)>>])
    ELSE [NoOut EXCEPT !.report = <<p.results>>]

\* results.append(f"{user['name']}: {result}") (line 185), up to the next
\* iteration.
AppendLine(p, line) ==
    [GoesOn([p EXCEPT !.pc = "next_user", !.acc = <<>>, !.call = <<>>,
                      !.mail = <<>>, !.api = <<>>, !.t = <<>>,
                      !.results = Append(@, line)])
     EXCEPT !.lines = <<line>>]

\* send_email_notification(user, matched_jobs) (line 184) has come to e: it
\* has raised, which ends the run and the scheduler thread, or the e-mail is
\* posted, or the line for "No matching jobs found" is appended.
AfterNotification(us, p, run, e) ==
    IF e.raised
    THEN [NoOut EXCEPT !.proc = DeadProc, !.end = "raised"]
    ELSE IF e.mail # <<>>
    THEN GoesOn([p EXCEPT !.pc = "post", !.acc = <<>>, !.call = <<>>,
                          !.mail = e.mail])
    ELSE AppendLine(p, ReportLine(p.i, us[p.i].name, run.matched, e.result[1],
                                  <<>>, <<>>))

\* match_jobs_for_user(user) has returned run (line 183).
AfterMatching(us, p, run) ==
    [AfterNotification(us, p, run, send_email_notification(us[p.i], run.matched))
     EXCEPT !.runs = <<run>>]

\* The payload fetched for role r of user i was scored as s (lines 85-122):
\* the scoring has raised, or the next role is fetched (line 83), or the
\* list is sorted and returned (lines 125-126).
AfterScoring(us, p, s) ==
    IF s.raised
    THEN [NoOut EXCEPT !.proc = DeadProc, !.end = "raised",
                       !.runs = <<MatchingRun(p.i, s.matched, TRUE)>>]
    ELSE IF p.r < Len(us[p.i].roles)
    THEN GoesOn([p EXCEPT !.r = p.r + 1, !.acc = s.matched, !.pc = "lookup",
                          !.call = <<NewCall(us[p.i].roles[p.r + 1],
                                             us[p.i].location, sGb)>>])
    ELSE AfterMatching(us, p, MatchingRun(p.i, s.matched, FALSE))

\* match_jobs_for_user from the return of fetch_jobs (line 83) with data, to
\* the next access.
match_jobs_for_user(us, p, data) ==
    AfterScoring(us, p, ScoreRole(us[p.i], p.r, data, p.acc))

\* The run when the e-mail API has answered api (lines 166-178): with a body
\* read and status 200 the clock is read (t) for user["last_notified"],
\* otherwise the error is the user's line.
RunAfterPost(us, p, t, api, e) ==
    IF e.notified
    THEN GoesOn([p EXCEPT !.pc = "notify", !.t = <<t>>, !.api = <<api>>])
    ELSE AppendLine(p, ReportLine(p.i, us[p.i].name, p.mail[1].jobs, e.result,
                                  <<[to |-> p.mail[1].to, jobs |-> p.mail[1].jobs,
                                     api |-> api]>>, <<>>))

\* user["last_notified"] = ... (line 173), then lines 174 and 185.
RunAfterNotify(us, p) ==
    AppendLine(p, ReportLine(p.i, us[p.i].name, p.mail[1].jobs,
                             [msg |-> "Notification sent to",
                              to |-> p.mail[1].to],
                             <<[to |-> p.mail[1].to, jobs |-> p.mail[1].jobs,
                                api |-> p.api[1]]>>, p.t))

(***************************************************************************)
(* Tab 2, "Find Matching Jobs"                                             *)
(***************************************************************************)
\* The match the handler appends for the e-mail: the score is title and
\* skills only.
ManualMatch(user, job_title, job, at) ==
    [job |-> job,
     score |-> SkillScore(TitleScore(Whole(0), job_title, job), user, job),
     matched_skills |-> MatchedSkills(user, job), at |-> at]

\* Rendering a card (lines 206-233, 363-394) raises on a null company, on a
\* null location, with salary_min and salary_max both present on a null one
\* of them (lines 218-222, 375-379: None formatted with :,.2f), or on a null
\* description (lines 226, 383: len(None)).
CardRaises(job) ==
    \/ CompanyRaises(job)
    \/ LocationRaises(job)
    \/ /\ "salary_min" \in DOMAIN job
       /\ "salary_max" \in DOMAIN job
       /\ job.salary_min = <<>> \/ job.salary_max = <<>>
    \/ "description" \in DOMAIN job /\ job.description = <<>>

\* One iteration of Tab 2's loop (lines 337-394) raises while scoring (a null
\* title has no lower(); a null description, with a skill to look for) or
\* while rendering the card.
ManualRaises(user, job) ==
    \/ "title" \in DOMAIN job /\ job.title = <<>>
    \/ /\ "description" \in DOMAIN job /\ job.description = <<>>
       /\ user.skills # <<>>
    \/ CardRaises(job)

\* for job in jobs_data["results"][:20]: every posting is appended.
RECURSIVE ManualResults(_, _, _, _, _)
ManualResults(user, job_title, results, j, acc) ==
    IF j > Len(results) THEN [raised |-> FALSE, matched |-> acc]
    ELSE IF ManualRaises(user, results[j]) THEN [raised |-> TRUE, matched |-> acc]
    ELSE ManualResults(user, job_title, results, j + 1,
            Append(acc, ManualMatch(user, job_title, results[j], <<1, j>>)))

\* next(u for u in matchmaker.users if u["name"] == selected_user)
SelectedUser(us, name) ==
    CHOOSE i \in 1..Len(us) :
        /\ us[i].name = name
        /\ \A k \in 1..(i - 1) : us[k].name # name

\* The button's handler up to the lookup of fetch_jobs (lines 319-324):
\* without a job title it shows an error and fetches nothing.
find_matching_jobs(p, job_title, job_location, country) ==
    IF job_title = <<>>
    THEN [NoOut EXCEPT !.result = Shown("Please enter a job title to search")]
    ELSE GoesOn([p EXCEPT !.pc = "lookup",
                          !.call = <<NewCall(job_title, job_location, country)>>])

\* send_email_notification(temp_user, matched_jobs[:20]) (line 403) has come
\* to e: it has raised, or returned its message for an empty list, or the
\* e-mail is posted.
ManualSend(matched, e) ==
    IF e.raised
    THEN [end |-> "raised", matched |-> matched, mail |-> <<>>,
          result |-> Shown("")]
    ELSE IF e.mail = <<>>
    THEN [end |-> "returned", matched |-> matched, mail |-> <<>>,
          result |-> e.result[1]]
    ELSE [end |-> "post", matched |-> matched, mail |-> e.mail,
          result |-> Shown("")]

\* The handler from the fetched payload to conn.request (lines 326-403):
\* what it shows and stops, or the matches it e-mails for temp_user, a copy
\* of the selected user with the address typed.
find_matching_jobs_results(user, job_title, email_to, data) ==
    IF "error" \in DOMAIN data
    THEN [end |-> "returned", matched |-> <<>>, mail |-> <<>>,
          result |-> Shown("Error")]
    ELSE IF "results" \notin DOMAIN data \/ data.results = <<>>
    THEN [end |-> "returned", matched |-> <<>>, mail |-> <<>>,
          result |-> Shown("No jobs found")]
    ELSE
      LET m == ManualResults(user, job_title, Take(data.results, ManualLimit),
                             1, <<>>)
      IN
      IF m.raised
      THEN [end |-> "raised", matched |-> <<>>, mail |-> <<>>,
            result |-> Shown("")]
      ELSE ManualSend(Take(m.matched, ManualLimit),
                      send_email_notification([user EXCEPT !.email = email_to],
                                              Take(m.matched, ManualLimit)))

\* Where Tab 2's handler stands after the payload was processed as d.
AfterResults(p, d) ==
    [NoOut EXCEPT
        !.proc = IF d.end = "post"
                 THEN [p EXCEPT !.pc = "post", !.call = <<>>, !.mail = d.mail]
                 ELSE NoProc,
        !.end = d.end, !.matched = d.matched, !.result = d.result]

\* The handler when the e-mail API has answered api (lines 166-178, called
\* on line 403 with temp_user): with a body read and status 200 the clock is
\* read (t) and set as last_notified of temp_user, the copy.
ManualAfterPost(us, p, t, api, e) ==
    [NoOut EXCEPT
        !.lines = <<ReportLine(0, us[p.i].name, p.mail[1].jobs, e.result,
                               <<[to |-> p.mail[1].to, jobs |-> p.mail[1].jobs,
                                  api |-> api]>>,
                               IF e.notified THEN <<t>> ELSE <<>>)>>,
        !.matched = p.mail[1].jobs, !.result = e.result]

(***************************************************************************)
(* JobMatchmaker.search_available_jobs (Tab 3)                             *)
(***************************************************************************)
\* The call up to the lookup of fetch_jobs (lines 190-194): without a query
\* or a location it returns a message and fetches nothing.
search_available_jobs(p, query, location, country) ==
    IF query = <<>> \/ location = <<>>
    THEN [NoOut EXCEPT
             !.result = Shown("Please provide both job title and location.")]
    ELSE GoesOn([p EXCEPT !.pc = "lookup",
                          !.call = <<NewCall(query, location, country)>>])

\* The rest of the call, from the fetched payload (lines 196-235).
search_available_jobs_results(data) ==
    IF "error" \in DOMAIN data
    THEN [NoOut EXCEPT !.result = Shown("Error")]
    ELSE IF "results" \notin DOMAIN data \/ data.results = <<>>
    THEN [NoOut EXCEPT !.result = Shown("No jobs found")]
    ELSE IF \E j \in 1..Min(Len(data.results), SearchLimit) :
                CardRaises(data.results[j])
    THEN [NoOut EXCEPT !.end = "raised"]
    ELSE [NoOut EXCEPT !.result = Shown("cards")]

(***************************************************************************)
(* The caller of fetch_jobs goes on with the data returned.                *)
(***************************************************************************)
\* f is the record of the call that has returned.
FetchReturned(us, p, data, f) ==
    [(IF p.kind = "batch" THEN match_jobs_for_user(us, p, data)
      ELSE IF p.kind = "manual"
      THEN AfterResults(p, find_matching_jobs_results(us[p.i], p.job_title,
                                                      p.email_to, data))
      ELSE search_available_jobs_results(data))
     EXCEPT !.fetches = <<f>>]

(***************************************************************************)
(* State machine.  procs[th] is where thread th stands; thread 1 runs the  *)
(* script, thread k + 1 is the scheduler thread started by the k-th        *)
(* execution of the script.  last is the record of the step just taken.    *)
(***************************************************************************)
ScriptThread == 1
SchedulerThreads == 2..(1 + MaxScripts)
Threads == {ScriptThread} \cup SchedulerThreads

Idle(op) ==
    [op |-> op, th |-> 0, mm |-> 0, end |-> "", fetches |-> <<>>,
     runs |-> <<>>, lines |-> <<>>, report |-> <<>>, matched |-> <<>>,
     result |-> Shown(""), before |-> <<>>, selected |-> 0,
     job_title |-> <<>>]

\* The record of a step of thread th, which stood at p, that did o; us is the
\* registry before the step.
Observed(th, p, o, us) ==
    [op |-> p.kind, th |-> th, mm |-> p.mm, end |-> o.end,
     fetches |-> o.fetches, runs |-> o.runs, lines |-> o.lines,
     report |-> o.report, matched |-> o.matched, result |-> o.result,
     before |-> us, selected |-> IF p.kind = "manual" THEN p.i ELSE 0,
     job_title |-> p.job_title]

\* The clock readings of the model: datetime.now(), in seconds.
ClockReadings == {0, 60, 86400}

Init ==
    /\ users = <<>>
    /\ job_cache = <<>>
    /\ stored_by = <<>>
    /\ now = 0
    /\ fuzz \in FuzzTables
    /\ procs = [th \in Threads |-> NoProc]
    /\ fired = 0
    /\ last = Idle("idle")

\* Thread th, which stood at p, has taken a step that did o.
Step(th, p, o) ==
    \E done \in {o} :
        /\ procs' = [procs EXCEPT ![th] = done.proc]
        /\ last' = Observed(th, p, done, users)

\* An execution of the script down to the tabs (lines 237-261): a new
\* JobMatchmaker, whose users is the session's list, one more scheduled_job
\* registered and one more scheduler thread started.
NewMatchmaker ==
    /\ procs[ScriptThread].kind = "none"
    /\ Len(job_cache) < MaxScripts
    /\ job_cache' = Append(job_cache, <<>>)
    /\ stored_by' = Append(stored_by, <<>>)

\* The script thread in a handler of the matchmaker just built.
Handler(kind) == [NoProc EXCEPT !.kind = kind, !.mm = Len(job_cache) + 1]

\* Tab 1, "Add User" pressed: the script runs down to self.users.append.
AddUser(form) ==
    /\ NewMatchmaker
    /\ Len(users) < MaxUsers
    /\ Step(ScriptThread, Handler("add"),
            GoesOn([Handler("add") EXCEPT !.pc = "append", !.form = <<form>>]))
    /\ UNCHANGED <<users, now, fuzz, fired>>

\* self.users.append(user) (line 36), then lines 37 and 283-284.
UsersAppend ==
    /\ procs[ScriptThread].pc = "append"
    /\ users' = Append(users, add_user(procs[ScriptThread].form[1]))
    /\ Step(ScriptThread, procs[ScriptThread],
            [NoOut EXCEPT !.result =
                [msg |-> "Added user",
                 to |-> procs[ScriptThread].form[1].name]])
    /\ UNCHANGED <<job_cache, stored_by, now, fuzz, fired>>

\* Scheduler thread th starts scheduled_job of the k-th matchmaker: down to
\* the first for user in self.users.
ScheduledJob(th, k) ==
    /\ th \in SchedulerThreads
    /\ th <= Len(job_cache) + 1
    /\ procs[th].kind = "none"
    /\ k \in 1..Len(job_cache)
    /\ fired < MaxFirings
    /\ fired' = fired + 1
    /\ \E p \in {[NoProc EXCEPT !.kind = "batch", !.mm = k]} :
          Step(th, p, run_matching_for_all_users(users, p))
    /\ UNCHANGED <<users, job_cache, stored_by, now, fuzz>>

\* for user in self.users (line 182), after a user's line was appended.
NextUser(th) ==
    /\ procs[th].pc = "next_user"
    /\ Step(th, procs[th], run_matching_for_all_users(users, procs[th]))
    /\ UNCHANGED <<users, job_cache, stored_by, now, fuzz, fired>>

\* Tab 2, "Find Matching Jobs" pressed: the user selected, the job title,
\* location and e-mail address typed and the country selected.
FindMatchingJobs(name, job_title, job_location, email_to, country) ==
    /\ NewMatchmaker
    /\ \E n \in 1..Len(users) : users[n].name = name
    /\ \E p \in {[Handler("manual") EXCEPT
                     !.i = SelectedUser(users, name),
                     !.job_title = job_title, !.email_to = email_to]} :
          Step(ScriptThread, p,
               find_matching_jobs(p, job_title, job_location, country))
    /\ UNCHANGED <<users, now, fuzz, fired>>

\* Tab 3, "Search Jobs" pressed.
SearchJobs(query, location, country) ==
    /\ NewMatchmaker
    /\ Step(ScriptThread, Handler("search"),
            search_available_jobs(Handler("search"), query, location, country))
    /\ UNCHANGED <<users, now, fuzz, fired>>

\* fetch_jobs in thread th: cache_key in self.job_cache and datetime.now()
\* (lines 42-44).
CacheLookup(th) ==
    /\ procs[th].pc = "lookup"
    /\ \E p \in {procs[th]} :
       \E x \in {fetch_jobs(job_cache[p.mm], now, p.call[1])} :
          Step(th, p, GoesOn([p EXCEPT !.pc = x.pc, !.call = <<x.call>>]))
    /\ UNCHANGED <<users, job_cache, stored_by, now, fuzz, fired>>

\* fetch_jobs in thread th: the entry's timestamp is read (line 44).
CacheTimestamp(th) ==
    /\ procs[th].pc = "timestamp"
    /\ \E p \in {procs[th]} :
       \E x \in {fetch_jobs_timestamp(job_cache[p.mm], p.call[1])} :
          Step(th, p, GoesOn([p EXCEPT !.pc = x.pc, !.call = <<x.call>>]))
    /\ UNCHANGED <<users, job_cache, stored_by, now, fuzz, fired>>

\* fetch_jobs in thread th: the entry's data is read and returned (line 45).
CacheData(th) ==
    /\ procs[th].pc = "data"
    /\ \E p \in {procs[th]} :
       \E data \in {fetch_jobs_data(job_cache[p.mm], p.call[1])} :
          Step(th, p,
               FetchReturned(users, p, data,
                             Fetched(p.call[1], data, job_cache[p.mm],
                                     job_cache[p.mm])))
    /\ UNCHANGED <<users, job_cache, stored_by, now, fuzz, fired>>

\* requests.get returns in thread th: the job-search API has answered up.
RequestsGetReturns(th, up) ==
    /\ procs[th].pc = "get"
    /\ \E p \in {procs[th]} :
       \E x \in {fetch_jobs_response(now, up, p.call[1])} :
          Step(th, p,
               IF x.ok
               THEN GoesOn([p EXCEPT !.pc = "store", !.call = <<x.call>>])
               ELSE FetchReturned(users, p, x.data,
                                  Fetched(x.call, x.data, job_cache[p.mm],
                                          job_cache[p.mm])))
    /\ UNCHANGED <<users, job_cache, stored_by, now, fuzz, fired>>

\* fetch_jobs in thread th: the answer is stored and returned (lines 68-73).
CacheStore(th) ==
    /\ procs[th].pc = "store"
    /\ \E p \in {procs[th]} :
       /\ job_cache' = [job_cache EXCEPT ![p.mm] =
                           fetch_jobs_store(@, p.call[1])]
       /\ stored_by' = [stored_by EXCEPT ![p.mm] =
                           CachePut(@, CallKey(p.call[1]),
                                    <<p.call[1].query, p.call[1].location,
                                      p.call[1].country>>)]
       /\ Step(th, p,
               FetchReturned(users, p, p.call[1].data[1],
                             Fetched(p.call[1], p.call[1].data[1],
                                     job_cache[p.mm], job_cache'[p.mm])))
    /\ UNCHANGED <<users, now, fuzz, fired>>

\* conn.request, conn.getresponse and res.read in thread th (lines 164-167):
\* the e-mail API has done api.
EmailApiReturns(th, api) ==
    /\ procs[th].pc = "post"
    /\ \E p \in {procs[th]} :
       \E e \in {send_email_response(p.mail[1], api)} :
          Step(th, p,
               IF p.kind = "batch"
               THEN RunAfterPost(users, p, now, api, e)
               ELSE ManualAfterPost(users, p, now, api, e))
    /\ UNCHANGED <<users, job_cache, stored_by, now, fuzz, fired>>

\* user["last_notified"] = ... in thread th (line 173), in a batch run.
SetLastNotified(th) ==
    /\ procs[th].pc = "notify"
    /\ users' = [users EXCEPT ![procs[th].i].last_notified = procs[th].t]
    /\ Step(th, procs[th], RunAfterNotify(users, procs[th]))
    /\ UNCHANGED <<job_cache, stored_by, now, fuzz, fired>>

\* Time passes between two steps.
Tick(t) ==
    /\ t > now
    /\ now' = t
    /\ last' = Idle("idle")
    /\ UNCHANGED <<users, job_cache, stored_by, fuzz, procs, fired>>

Next ==
    \/ \E form \in Forms : AddUser(form)
    \/ UsersAppend
    \/ \E th \in SchedulerThreads, k \in 1..MaxScripts : ScheduledJob(th, k)
    \/ \E th \in SchedulerThreads : NextUser(th)
    \/ \E name \in {"ann", "bob"}, job_title \in TitleInputs,
          job_location \in Locations, email_to \in {"ann@x", "bob@x"},
          c \in {sGb} :
          FindMatchingJobs(name, job_title, job_location, email_to, c)
    \/ \E s \in SearchInputs : SearchJobs(s[1], s[2], s[3])
    \/ \E th \in Threads : CacheLookup(th)
    \/ \E th \in Threads : CacheTimestamp(th)
    \/ \E th \in Threads : CacheData(th)
    \/ \E th \in Threads, up \in Responses : RequestsGetReturns(th, up)
    \/ \E th \in Threads : CacheStore(th)
    \/ \E th \in Threads, api \in EmailOutcomes : EmailApiReturns(th, api)
    \/ \E th \in SchedulerThreads : SetLastNotified(th)
    \/ \E t \in ClockReadings : Tick(t)

Spec == Init /\ [][Next]_vars

(***************************************************************************)
(* The specifications checked: Next with the inputs and the answers of the *)
(* two APIs drawn from subsets, one specification for each group of        *)
(* properties.                                                             *)
(***************************************************************************)
\* The similarity table of the specifications in which matching is not the
\* subject.
PlainTable == FuzzTable([title |-> 70, york |-> 70, uk |-> 70])
InitPlain == Init /\ fuzz = PlainTable

\* The fetch cache: Add User pressed once, Search Jobs pressed for the
\* user's role and location (a second matchmaker and a second scheduler
\* thread), the scheduled jobs run by every scheduler thread, the failing answers of the job-search
\* API and its answers with and without postings, the e-mail API refusing,
\* the clock moving.
NextFetch ==
    \/ Len(users) = 0 /\ AddUser(formBob)
    \/ UsersAppend
    \/ \E th \in SchedulerThreads, k \in 1..MaxScripts : ScheduledJob(th, k)
    \/ \E th \in SchedulerThreads : NextUser(th)
    \/ SearchJobs(sDevOps, sOpsYork, sGb)
    \/ \E th \in Threads : CacheLookup(th)
    \/ \E th \in Threads : CacheTimestamp(th)
    \/ \E th \in Threads : CacheData(th)
    \/ \E th \in Threads, up \in Responses \ {rBad, rCompany, rSalary} :
          RequestsGetReturns(th, up)
    \/ \E th \in Threads : CacheStore(th)
    \/ \E th \in Threads, api \in {a \in EmailOutcomes : a.status = 500} :
           EmailApiReturns(th, api)
    \/ \E t \in ClockReadings : Tick(t)

SpecFetch == InitPlain /\ [][NextFetch]_vars

\* Matching: both users, every similarity table, payloads with postings,
\* every scheduler thread.
NextMatch ==
    \/ \E form \in Forms : AddUser(form)
    \/ UsersAppend
    \/ \E th \in SchedulerThreads, k \in 1..MaxScripts : ScheduledJob(th, k)
    \/ \E th \in SchedulerThreads : NextUser(th)
    \/ \E th \in SchedulerThreads : CacheLookup(th)
    \/ \E th \in SchedulerThreads : CacheTimestamp(th)
    \/ \E th \in SchedulerThreads : CacheData(th)
    \/ \E th \in SchedulerThreads, up \in {rGood, rBad} :
          RequestsGetReturns(th, up)
    \/ \E th \in SchedulerThreads : CacheStore(th)
    \/ \E th \in SchedulerThreads :
          \E api \in {a \in EmailOutcomes : a.status = 200 /\ a.body # <<>>} :
              EmailApiReturns(th, api)
    \/ \E th \in SchedulerThreads : SetLastNotified(th)

SpecMatch == Init /\ [][NextMatch]_vars

\* Notification in the scheduled runs: Add User pressed up to twice, Find
\* Matching Jobs pressed without a job title, the scheduled jobs run by every
\* scheduler thread, payloads with postings, without them, with a posting
\* that cannot be scored and with one that cannot be listed in the e-mail,
\* every answer of the e-mail API, the clock moving.

NextNotify ==
    \/ AddUser(formBob)
    \/ UsersAppend
    \/ \E th \in SchedulerThreads, k \in 1..MaxScripts : ScheduledJob(th, k)
    \/ \E th \in SchedulerThreads : NextUser(th)
    \/ FindMatchingJobs("bob", <<>>, sOpsYork, "bob@x", sGb)
    \/ \E th \in Threads : CacheLookup(th)
    \/ \E th \in Threads : CacheTimestamp(th)
    \/ \E th \in Threads : CacheData(th)
    \/ \E th \in Threads, up \in {rGood, rNone, rBad, rCompany} :
          RequestsGetReturns(th, up)
    \/ \E th \in Threads : CacheStore(th)
    \/ \E th \in Threads, api \in EmailOutcomes : EmailApiReturns(th, api)
    \/ \E th \in SchedulerThreads : SetLastNotified(th)
    \/ \E t \in {60} : Tick(t)

SpecNotify == InitPlain /\ [][NextNotify]_vars

\* Tab 2: Add User pressed once, then Find Matching Jobs, with the scheduled
\* jobs run by every scheduler thread, payloads with postings and with a
\* posting whose card cannot be rendered, every answer of the e-mail API.
NextManual ==
    \/ Len(users) = 0 /\ AddUser(formBob)
    \/ UsersAppend
    \/ \E th \in SchedulerThreads, k \in 1..MaxScripts : ScheduledJob(th, k)
    \/ \E th \in SchedulerThreads : NextUser(th)
    \/ \E job_title \in TitleInputs :
          FindMatchingJobs("bob", job_title, sOpsYork, "bob@x", sGb)
    \/ \E th \in Threads : CacheLookup(th)
    \/ \E th \in Threads : CacheTimestamp(th)
    \/ \E th \in Threads : CacheData(th)
    \/ \E th \in Threads, up \in {rGood, rSalary} : RequestsGetReturns(th, up)
    \/ \E th \in Threads : CacheStore(th)
    \/ \E th \in Threads, api \in EmailOutcomes : EmailApiReturns(th, api)
    \/ \E th \in SchedulerThreads : SetLastNotified(th)

SpecManual == InitPlain /\ [][NextManual]_vars

\* Cache keys: Add User pressed once, then Search Jobs (Tab 3), with the
\* scheduled jobs run by every scheduler thread on either matchmaker.
NextKeys ==
    \/ Len(users) = 0 /\ AddUser(formAnn)
    \/ UsersAppend
    \/ \E th \in SchedulerThreads, k \in 1..MaxScripts : ScheduledJob(th, k)
    \/ \E th \in SchedulerThreads : NextUser(th)
    \/ \E s \in SearchInputs : SearchJobs(s[1], s[2], s[3])
    \/ \E th \in Threads : CacheLookup(th)
    \/ \E th \in Threads : CacheTimestamp(th)
    \/ \E th \in Threads : CacheData(th)
    \/ \E th \in Threads, up \in {rNone, rSalary} : RequestsGetReturns(th, up)
    \/ \E th \in Threads : CacheStore(th)
    \/ \E th \in Threads, api \in {a \in EmailOutcomes : a.status = 500} :
           EmailApiReturns(th, api)

SpecKeys == InitPlain /\ [][NextKeys]_vars

(***************************************************************************)
(* Properties.  They read last, the record of the step just taken.         *)
(***************************************************************************)
FetchKey(f) == cache_key(f.query, f.location, f.country)
\* When the call looked its key up, the cache held an entry for it.
Stored(f) == f.found
\* The age the call judged the entry by: the clock it read less the
\* timestamp it read.
Age(f) == f.at[1] - f.judged[1]
IsErrorMarker(data) ==
    /\ DOMAIN data = {"results", "error"}
    /\ data.results = <<>>
RangeOf(seq) == {seq[i] : i \in 1..Len(seq)}

\* C1: a fetch_jobs call made less than 24 hours (86400 s) after its key was
\* populated (the timestamp stored with the entry) returns the stored
\* payload, issues no upstream request and leaves the cache as it was; a
\* call made 24 hours or more after population, or for a key never
\* populated, issues exactly one upstream request.
C1_CacheWindow ==
    \A f \in RangeOf(last.fetches) :
        /\ (Stored(f) /\ Age(f) < 24 * 3600)
              => /\ f.data = f.prior[FetchKey(f)].data
                 /\ f.reqs = 0
                 /\ f.after = f.prior
        /\ (Stored(f) /\ Age(f) >= 24 * 3600) => f.reqs = 1
        /\ ~Stored(f) => f.reqs = 1

\* A call one minute after its key was populated was answered from the cache.
C1_Witness ==
    \E f \in RangeOf(last.fetches) :
        /\ Stored(f) /\ Age(f) = 60
        /\ f.reqs = 0
        /\ f.data = f.prior[FetchKey(f)].data

\* C2 as stated: when the upstream request fails (network error or non-2xx
\* status) the call returns the empty-result marker, writes nothing to the
\* cache and has issued exactly one request.
UpstreamAnswered(f) == f.up # <<>>
NetworkError(f) == f.up[1].error
Non2xx(f) == ~f.up[1].error /\ ~(200 <= f.up[1].status /\ f.up[1].status <= 299)
FailedQuietly(f) ==
    /\ IsErrorMarker(f.data)
    /\ f.after = f.prior
    /\ f.reqs = 1

C2_AsStated ==
    \A f \in RangeOf(last.fetches) :
        (UpstreamAnswered(f) /\ (NetworkError(f) \/ Non2xx(f)))
            => FailedQuietly(f)

\* C2, amended: when the upstream request fails with a network error, a 4xx
\* or 5xx status, or a body that is not a JSON object, the call returns the
\* empty-result marker, writes nothing to the cache (a stale entry of the key
\* stays) and has issued exactly one request; a final response with any
\* other status and a JSON object as its body is stored, with the clock read
\* when the answer came, and returned.
HttpError(f) ==
    ~f.up[1].error /\ 400 <= f.up[1].status /\ f.up[1].status <= 599
NotJson(f) == ~f.up[1].error /\ f.up[1].body = <<>>
NotObject(f) ==
    /\ ~f.up[1].error
    /\ f.up[1].body # <<>>
    /\ "object" \notin DOMAIN f.up[1].body[1]

C2_FailureNotCached ==
    \A f \in RangeOf(last.fetches) :
        UpstreamAnswered(f) =>
            IF NetworkError(f) \/ HttpError(f) \/ NotJson(f) \/ NotObject(f)
            THEN FailedQuietly(f)
            ELSE /\ f.data = f.up[1].body[1].object
                 /\ f.reqs = 1
                 /\ f.after[FetchKey(f)] =
                        [timestamp |-> f.answered[1], data |-> f.data]
                 /\ \A k \in DOMAIN f.prior \ {FetchKey(f)} :
                        k \in DOMAIN f.after /\ f.after[k] = f.prior[k]

\* A 5xx answer to a call whose key held an expired entry: the entry is kept.
C2_Witness ==
    \E f \in RangeOf(last.fetches) :
        /\ UpstreamAnswered(f) /\ HttpError(f)
        /\ Stored(f) /\ Age(f) >= 24 * 3600
        /\ FetchKey(f) \in DOMAIN f.prior
        /\ f.after = f.prior

\* The match_jobs_for_user calls of the step just taken that returned a list.
ReturnedRuns == {run \in RangeOf(last.runs) : ~run.raised}
RunUser(run) == last.before[run.user]
\* a was met before b: an earlier role, or the same role and an earlier
\* place in its results.
MetBefore(a, b) == a[1] < b[1] \/ (a[1] = b[1] /\ a[2] < b[2])

\* C3: every job in the list match_jobs_for_user returns has a total score
\* strictly greater than 60, and the list holds at most 5 jobs for the user,
\* all of the user's roles together.
C3_Above60AtMost5 ==
    \A run \in ReturnedRuns :
        /\ Len(run.matched) <= 5
        /\ \A k \in 1..Len(run.matched) : Less(Whole(60), run.matched[k].score)

\* A user with more than 5 qualifying jobs, met under two roles, got 5.
C3_Witness ==
    \E run \in ReturnedRuns :
        /\ Len(run.qualifying) > 5
        /\ Len(run.matched) = 5
        /\ \E a, b \in RangeOf(run.qualifying) : a.at[1] # b.at[1]

\* C4: the list match_jobs_for_user returns is ordered by non-increasing
\* score, jobs of equal score keep the order in which they were met (role
\* order, then listing order), and the list is the first 5 of that ordering
\* of all the qualifying jobs.  The score is the double the code computed.
C4_SortedStableTop5 ==
    \A run \in ReturnedRuns :
        /\ Len(run.matched) = Min(Len(run.qualifying), 5)
        /\ RangeOf(run.matched) \subseteq RangeOf(run.qualifying)
        /\ \A i, j \in 1..Len(run.qualifying) :
              i < j => MetBefore(run.qualifying[i].at, run.qualifying[j].at)
        /\ \A i, j \in 1..Len(run.matched) :
              i < j => \/ Less(run.matched[j].score, run.matched[i].score)
                       \/ /\ run.matched[i].score = run.matched[j].score
                          /\ MetBefore(run.matched[i].at, run.matched[j].at)
        /\ \A x \in RangeOf(run.qualifying) \ RangeOf(run.matched) :
              \A i \in 1..Len(run.matched) :
                  \/ Less(x.score, run.matched[i].score)
                  \/ /\ run.matched[i].score = x.score
                     /\ MetBefore(run.matched[i].at, x.at)

\* More than 5 qualifying jobs, a higher score met after a lower one, and two
\* returned jobs of equal score.
C4_Witness ==
    \E run \in ReturnedRuns :
        /\ Len(run.qualifying) > 5
        /\ \E i, j \in 1..Len(run.qualifying) :
              i < j /\ Less(run.qualifying[i].score, run.qualifying[j].score)
        /\ \E i, j \in 1..Len(run.matched) :
              i < j /\ run.matched[i].score = run.matched[j].score

\* The number of the user's skills occurring in a description.
SkillHits ==
    Tabulate([p \in SkillLists \X Descriptions |->
                 Cardinality({i \in 1..Len(p[1]) :
                                 Contains(Lower(p[2]), Lower(p[1][i]))})])

\* The four components of the claimed score, 0 for an absent field.
ClaimedTitle(role, job) ==
    IF "title" \in DOMAIN job
    THEN fuzz[<<LowerTable[role], LowerTable[job.title[1]]>>]
    ELSE 0

ClaimedSkills(user, job) ==
    IF "description" \in DOMAIN job
    THEN Min(10 * SkillHits[<<user.skills, job.description[1]>>], 50)
    ELSE 0

ClaimedArea(user, job) ==
    IF "location" \in DOMAIN job /\ "area" \in DOMAIN job.location[1]
    THEN fuzz[<<LowerTable[user.location], AreaTable[job.location[1].area]>>]
    ELSE 0

ClaimedBonus(user, job) ==
    IF "salary_min" \in DOMAIN job /\ job.salary_min # <<>>
    THEN (IF job.salary_min[1] >= user.min_salary THEN 10 ELSE 0)
    ELSE 0

\* The claimed sum, computed in doubles from left to right.
ClaimedScore(user, role, job) ==
    Plus(Plus(Plus(Times(ClaimedTitle(role, job), TitleWeight),
                   Whole(ClaimedSkills(user, job))),
              Times(ClaimedArea(user, job), LocationWeight)),
         Whole(ClaimedBonus(user, job)))

\* The claimed sum as a real number, in tenths.
ClaimedTenths(user, role, job) ==
    3 * ClaimedTitle(role, job) + 10 * ClaimedSkills(user, job)
        + 2 * ClaimedArea(user, job) + 10 * ClaimedBonus(user, job)

\* score is the double x or the double -x of a real x with
\* |x - tenths / 10| <= 2^17 * U (less than 1.2e-14).
NearTenths(score, tenths) ==
    /\ score.k = tenths
    /\ -(2^17) <= score.e /\ score.e <= 2^17

\* C5: the score is 0.3*sim(role, title) + min(10 * (number of the user's
\* skills occurring case-insensitively in the description), 50)
\* + 0.2*sim(user location, area) + (10 if salary_min is present and at least
\* the user's minimum), a component counting 0 when its field is absent: the
\* score is that sum computed in doubles, which is the real sum to within
\* 1.2e-14.
C5_ScoreFormula ==
    /\ \A i \in 1..Len(users) :
          \A r \in 1..Len(users[i].roles) :
              \A job \in Jobs :
                  ~ScoreRaises(users[i], job) =>
                      /\ JobScore(users[i], users[i].roles[r], job)
                            = ClaimedScore(users[i], users[i].roles[r], job)
                      /\ NearTenths(JobScore(users[i], users[i].roles[r], job),
                                    ClaimedTenths(users[i], users[i].roles[r],
                                                  job))
    /\ \A run \in RangeOf(last.runs) :
          \A x \in RangeOf(run.qualifying) :
              x.score = ClaimedScore(RunUser(run), RunUser(run).roles[x.at[1]],
                                     x.job)

\* A job scored on all four components, the skill component capped (six
\* skills matched): 0.3*2 + 50 + 0.2*21 + 10, the double next above 64.8.
C5_Witness ==
    \E run \in ReturnedRuns :
        \E x \in RangeOf(run.qualifying) :
            /\ Len(x.matched_skills) > 5
            /\ "location" \in DOMAIN x.job
            /\ x.score.k = 3 * 2 + 10 * 50 + 2 * 21 + 10 * 10
            /\ x.score.e > 0

\* The registered user a report line is about: the line's own user in a batch
\* run, the user selected in Tab 2 on the manual path.
LineUser(line) == IF line.user = 0 THEN last.selected ELSE line.user
Is2xx(status) == 200 <= status /\ status <= 299
\* The e-mail API's answer to the call of a report line arrived whole: no
\* transport error, and its body could be read and decoded.
Answered(line) == ~line.calls[1].api.error /\ line.calls[1].api.body # <<>>
AnswerStatus(line) == line.calls[1].api.status
Sent(line) == line.result.msg = "Notification sent to"
Failed(line) == line.result.msg = "Error sending email"
\* The registered user's last_notified is the time read for the line.
Notified(line) ==
    /\ line.stamp # <<>>
    /\ users[LineUser(line)].last_notified = line.stamp
NotifiedUnchanged(i) == users[i].last_notified = last.before[i].last_notified

\* C6 as stated: for every notification of a registered user with a non-empty
\* match list, on the batch path and on the manual path: when the e-mail call
\* succeeds (an answer read whole, with status 200) the registered user's
\* last_notified is updated and a success message is returned; when it fails
\* (transport error, an answer that cannot be read, or a status outside 2xx)
\* an error message is returned and last_notified is unchanged.
C6_AsStated ==
    \A line \in RangeOf(last.lines) :
        line.calls # <<>> =>
            /\ Answered(line) /\ AnswerStatus(line) = 200
                  => Sent(line) /\ Notified(line)
            /\ ~Answered(line) \/ ~Is2xx(AnswerStatus(line))
                  => Failed(line) /\ NotifiedUnchanged(LineUser(line))

\* C7 as stated: every 2xx status of the e-mail API, its answer read whole,
\* is a success (reported as sent, and in a batch run last_notified updated),
\* every other status and a transport error (an answer that cannot be read
\* included) is a failure.
C7_AsStated ==
    \A line \in RangeOf(last.lines) :
        line.calls # <<>> =>
            /\ Answered(line) /\ Is2xx(AnswerStatus(line))
                  => /\ Sent(line)
                     /\ line.user # 0 => Notified(line)
            /\ ~Answered(line) \/ ~Is2xx(AnswerStatus(line))
                  => /\ Failed(line)
                     /\ NotifiedUnchanged(LineUser(line))

\* The match list send_email_notification was called with for a report line.
ListPassed(line) == line.passed

\* C8: send_email_notification called with an empty match list returns
\* "No matching jobs found", issues no e-mail API call and leaves the user's
\* last_notified unchanged.
C8_EmptyListNoEmail ==
    \A line \in RangeOf(last.lines) :
        ListPassed(line) = <<>> =>
            /\ line.result.msg = "No matching jobs found"
            /\ line.calls = <<>>
            /\ NotifiedUnchanged(LineUser(line))

\* A user notified earlier had no match in a later batch run.
C8_Witness ==
    \E line \in RangeOf(last.lines) :
        /\ ListPassed(line) = <<>>
        /\ line.result.msg = "No matching jobs found"
        /\ line.calls = <<>>
        /\ users[LineUser(line)].last_notified # <<>>

\* The step just taken ended a run_matching_for_all_users.
BatchEnded == last.op = "batch" /\ last.end \in {"returned", "raised"}

\* C9 as stated: run_matching_for_all_users always returns, with exactly one
\* report line per registered user in registry order and at most one e-mail
\* call per user, whatever fails for a user.
C9_AsStated ==
    BatchEnded =>
        /\ last.end = "returned"
        /\ Len(last.report[1]) = Len(users)
        /\ \A i \in 1..Len(last.report[1]) :
              /\ last.report[1][i].user = i
              /\ last.report[1][i].name = users[i].name
              /\ Len(last.report[1][i].calls) <= 1

\* The list the scheduled path selects for the selected user from the
\* payload Tab 2's handler has fetched.
ScheduledList ==
    TopSorted(ScoreRole(last.before[last.selected], 1, last.fetches[1].data,
                        <<>>).matched)

\* C10 as stated: for a user whose only role is the title typed and the same
\* upstream response, the manual path selects and e-mails the list the
\* scheduled path selects.
C10_AsStated ==
    (/\ last.op = "manual"
     /\ last.end = "post"
     /\ last.before[last.selected].roles = <<last.job_title>>)
        => last.matched = ScheduledList

\* The triple a fetch_jobs call was made for.
Triple(f) == <<f.query, f.location, f.country>>
\* The call was answered from the cache.
CacheHit(f) == f.reqs = 0 /\ Stored(f)

\* C11 as stated: cache entries are isolated per (query, location, country):
\* a call answered from the cache gets an entry that a call for the same
\* triple stored, strings containing the separator "_" included.
C11_AsStated ==
    \A f \in RangeOf(last.fetches) :
        CacheHit(f) => stored_by[last.mm][FetchKey(f)] = Triple(f)

====
